---- MODULE Spec2Model ----
(***************************************************************************)
(* Model of BuildAction (src/actions/build.action.ts): one invocation of   *)
(* handle(inputs, options), the runBuild call it awaits, and the           *)
(* collaborators runBuild calls.  Code between two awaits runs atomically  *)
(* and is one action; a collaborator's promise settles in an action of     *)
(* its own.  All JavaScript values are modelled as strings ("true",        *)
(* "false", "undefined", path names) so that they can be compared.         *)
(***************************************************************************)
EXTENDS Integers, Sequences, FiniteSets, TLC

VARIABLES
  options,          \* the options: Input[] handed to handle
  inputs,           \* the inputs: Input[] handed to handle
  hPc,              \* position of handle: "start", "awaitRunBuild", "returned"
  rbPc,             \* position of runBuild
  rbOutcome,        \* the promise runBuild returned: "none", "pending", "resolved", "rejected"
  rbError,          \* the rejection reason of that promise
  loadP,            \* promise of loader.load
  deleteP,          \* promise of workspaceUtils.deleteOutDirIfEnabled
  copyP,            \* promise of assetsManager.copyAssets
  stratP,           \* what the strategy's run did: "threw", "returned", or its promise
  stratError,       \* what the strategy's run threw or rejected with
  configuration,    \* the Configuration loader.load resolved with
  locals,           \* the const bindings of handle and runBuild
  requireResult,    \* outcome of require(pathToWebpackFile)
  invoked,          \* the strategy invocations, in order, with their arguments
  log,              \* every collaborator call and completion, in order
  raised,           \* the errors raised so far at any step
  messages,         \* what handle's catch printed
  unhandled         \* rejections no one awaited

vars == <<options, inputs, hPc, rbPc, rbOutcome, rbError, loadP, deleteP,
          copyP, stratP, stratError, configuration, locals, requireResult,
          invoked, log, raised, messages, unhandled>>

(***************************************************************************)
(* Bounds and value sets                                                   *)
(***************************************************************************)
MaxOptions == 4

Undef == "undefined"
Absent == "<absent>"
NoConfiguration == [loaded |-> "no"]

SystemDefaultWebpackPath == "webpack.config.js"
CustomWebpackPath == "custom.webpack.js"
defaultOutDir == "dist"

\* truthiness of a JavaScript value, as `if (x)`, `!!x` and `x || y` see it
Truthy(v) == v \notin {Undef, "false", ""}

(***************************************************************************)
(* Input lists.  Names are unique within a list (the caller's invariant),  *)
(* so a list is a choice, per name, of one value or of leaving it out.     *)
(***************************************************************************)
OptionNames == <<"config", "watch", "webpack", "webpackPath", "path">>

OptionValues(n) ==
  CASE n = "config"      -> {Absent, "nest-cli.json"}
    [] n = "watch"       -> {Absent, "true", "false"}
    [] n = "webpack"     -> {Absent, "true", "false", Undef}
    [] n = "webpackPath" -> {Absent, SystemDefaultWebpackPath, CustomWebpackPath}
    [] n = "path"        -> {Absent, "tsconfig.cli.json"}

RECURSIVE ToInputs(_, _, _)
ToInputs(names, choice, i) ==
  IF i > Len(names) THEN <<>>
  ELSE IF choice[i] = Absent THEN ToInputs(names, choice, i + 1)
  ELSE <<[name |-> names[i], value |-> choice[i]]>> \o ToInputs(names, choice, i + 1)

OptionLists ==
  { l \in { ToInputs(OptionNames, c, 1) :
              c \in { f \in [1..Len(OptionNames) -> UNION { OptionValues(OptionNames[k]) : k \in 1..Len(OptionNames) }] :
                        \A k \in 1..Len(OptionNames) : f[k] \in OptionValues(OptionNames[k]) } } :
      Len(l) <= MaxOptions }

InputLists == { <<>>, <<[name |-> "app", value |-> "api"]>> }

(***************************************************************************)
(* Configurations loader.load can resolve with: a compilerOptions section  *)
(* whose three keys are each optional, and a projects section keyed by     *)
(* application name whose entries may override compilerOptions.            *)
(***************************************************************************)
CompilerOptionKeys == {"tsConfigPath", "webpack", "webpackConfigPath"}

\* the record with exactly the keys of r that are not left out
Section(r) == [k \in {x \in DOMAIN r : r[x] # Absent} |-> r[k]]

GlobalCompilerOptions ==
  { Section([tsConfigPath |-> t, webpack |-> w, webpackConfigPath |-> p]) :
      t \in {Absent, "tsconfig.build.json"},
      w \in {Absent, "true", "false"},
      p \in {Absent, SystemDefaultWebpackPath, CustomWebpackPath} }

ProjectCompilerOptions ==
  { Section([tsConfigPath |-> t, webpack |-> w, webpackConfigPath |-> p]) :
      t \in {Absent, "tsconfig.app.json"},
      w \in {Absent, "true", "false"},
      p \in {Absent, CustomWebpackPath} }

ProjectSections ==
  { Section([api |-> Absent, admin |-> Absent]) }
  \cup { [api |-> [compilerOptions |-> c]] : c \in ProjectCompilerOptions }
  \cup { [admin |-> [compilerOptions |-> [webpack |-> "true", webpackConfigPath |-> CustomWebpackPath]]] }

Configurations ==
  { [compilerOptions |-> g, projects |-> p] :
      g \in GlobalCompilerOptions, p \in ProjectSections }

(***************************************************************************)
(* Array.prototype.find on an Input list by name: the index of the first   *)
(* Input with that name, 0 when there is none.                             *)
(***************************************************************************)
\* a find whose predicate accepts every Input
FindFirstAny(list, n) == IF Len(list) > 0 THEN 1 ELSE 0

Find(list, n) ==
  IF \E i \in 1..Len(list) : list[i].name = n
  THEN CHOOSE i \in 1..Len(list) :
         /\ list[i].name = n
         /\ \A j \in 1..(i - 1) : list[j].name # n
  ELSE 0

(***************************************************************************)
(* getValueOrDefault of lib/compiler/helpers/get-value-or-default, as the  *)
(* specification states its contract: the option's value when defined,     *)
(* else the value at projects.<appName>.<path>, else the value at <path>,  *)
(* else the default.                                                       *)
(***************************************************************************)
RECURSIVE getValueOfPath(_, _)
getValueOfPath(object, path) ==
  IF path = <<>> THEN object
  ELSE IF Head(path) \in DOMAIN object
       THEN getValueOfPath(object[Head(path)], Tail(path))
       ELSE Undef

getValueOrDefault(config, path, app, key, opts, defaultValue) ==
  LET i == Find(opts, key)
      origValue == IF i = 0 THEN Undef ELSE opts[i].value
      perAppValue == getValueOfPath(config, <<"projects", app>> \o path)
      value == getValueOfPath(config, path)
  IN  IF origValue # Undef THEN origValue
      ELSE IF perAppValue # Undef THEN perAppValue
      ELSE IF value # Undef THEN value
      ELSE defaultValue

(***************************************************************************)
(* The three resolutions runBuild asks of getValueOrDefault.  It passes no *)
(* default, so the default is undefined.                                   *)
(***************************************************************************)
ResolveTsConfigPath(config, app, opts) ==
  getValueOrDefault(config, <<"compilerOptions", "tsConfigPath">>, app, "path", opts, Undef)

\* the webpack flag read under the option name of the webpack config path
ResolveWebpackWrongOption(config, app, opts) ==
  getValueOrDefault(config, <<"compilerOptions", "webpack">>, app, "webpackPath", opts, Undef)

ResolveWebpack(config, app, opts) ==
  getValueOrDefault(config, <<"compilerOptions", "webpack">>, app, "webpack", opts, Undef)

ResolveWebpackPath(config, app, opts) ==
  getValueOrDefault(config, <<"compilerOptions", "webpackConfigPath">>, app, "webpackPath", opts, Undef)

\* configuration.compilerOptions!.webpackConfigPath!
DefaultPathArgument(config) ==
  getValueOfPath(config, <<"compilerOptions", "webpackConfigPath">>)

(***************************************************************************)
(* Errors.  A collaborator may reject with an Error or with any other      *)
(* value; handle's catch prints either.                                    *)
(***************************************************************************)
TypeErrorConfig == "TypeError: options.find(config) is undefined"
TypeErrorApp == "TypeError: inputs.find(app) is undefined"
TypeErrorJoin == "TypeError: path argument must be a string"
ConfigurationError == "Error: configuration could not be loaded"
DescriptorError == "Error: tsconfig could not be read"
CleanupError == "Error: output directory could not be deleted"
AssetsError == "Error: assets could not be copied"
WebpackLoadError == "Error: cannot find module"
StrategyError == "Error: compilation failed"
StrategyNonError == "compilation failed"

StrategyFailures == {StrategyError, StrategyNonError}

IsError(e) == e # StrategyNonError

(***************************************************************************)
(* getWebpackConfigFactoryByPath.  fileLoads says whether require of the   *)
(* joined path succeeds.  The result says what was returned or thrown and  *)
(* whether require was reached.                                            *)
(***************************************************************************)
LoadedModule == "module loaded from pathToWebpackFile"
FallbackFactory == "({}) => ({})"

\* the arrow function of the fallback: a new empty object, whatever it is given
ApplyFallbackFactory(base) == [ref |-> "new object", entries |-> {}]

\* a catch that rethrows whatever the requested path is
getWebpackConfigFactoryRethrows(webpackPath, defaultPath, fileLoads) ==
  IF webpackPath = Undef
  THEN [threw |-> TRUE, value |-> TypeErrorJoin, required |-> "none"]
  ELSE IF fileLoads
  THEN [threw |-> FALSE, value |-> LoadedModule, required |-> "loaded"]
  ELSE [threw |-> TRUE, value |-> WebpackLoadError, required |-> "failed"]

getWebpackConfigFactoryByPath(webpackPath, defaultPath, fileLoads) ==
  IF webpackPath = Undef
  THEN [threw |-> TRUE, value |-> TypeErrorJoin, required |-> "none"]
  ELSE IF fileLoads
  THEN [threw |-> FALSE, value |-> LoadedModule, required |-> "loaded"]
  ELSE IF webpackPath # defaultPath
  THEN [threw |-> TRUE, value |-> WebpackLoadError, required |-> "failed"]
  ELSE [threw |-> FALSE, value |-> FallbackFactory, required |-> "failed"]

(***************************************************************************)
(* The branch of runBuild's dispatch, and which run calls runBuild         *)
(* returns (and so waits for): webpackCompiler.run only.                   *)
(***************************************************************************)
Strategies == {"Bundling", "Watching", "OneShot"}

\* the watch test placed before the webpack test
SelectStrategyWatchFirst(isWebpackEnabled, watchMode) ==
  IF Truthy(watchMode) THEN "Watching"
  ELSE IF Truthy(isWebpackEnabled) THEN "Bundling"
  ELSE "OneShot"

SelectStrategy(isWebpackEnabled, watchMode) ==
  IF Truthy(isWebpackEnabled) THEN "Bundling"
  ELSE IF Truthy(watchMode) THEN "Watching"
  ELSE "OneShot"

ReturnsResultOf(strategy) == strategy = "Bundling"

\* a call whose await was left out: the function goes on at once
AwaitLeftOut(p) == TRUE

\* `await p` lets the function go on once p is settled
Await(p) == p # "pending"

\* what handle's catch does with the error: one line on stdout or on stderr
HandleCatch(err) ==
  <<[stream |-> IF IsError(err) THEN "console.log" ELSE "console.error", text |-> err]>>

(***************************************************************************)
(* Initial state: handle has been called with some inputs and options.     *)
(***************************************************************************)
InitLocals ==
  [watchMode |-> Undef, configFileName |-> Undef, appName |-> Undef,
   pathToTsconfig |-> Undef, outDir |-> Undef, isWebpackEnabled |-> Undef,
   webpackPath |-> Undef, defaultPath |-> Undef]

Init ==
  /\ options \in OptionLists
  /\ inputs \in InputLists
  /\ hPc = "start"
  /\ rbPc = "notCalled"
  /\ rbOutcome = "none"
  /\ rbError = Undef
  /\ loadP = "none"
  /\ deleteP = "none"
  /\ copyP = "none"
  /\ stratP = "none"
  /\ stratError = Undef
  /\ configuration = NoConfiguration
  /\ locals = InitLocals
  /\ requireResult = "none"
  /\ invoked = <<>>
  /\ log = <<>>
  /\ raised = {}
  /\ messages = <<>>
  /\ unhandled = {}

Event(op, ev) == [op |-> op, ev |-> ev]

\* runBuild throws: the promise it returned rejects with err
Throw(err) ==
  /\ rbPc' = "done"
  /\ rbOutcome' = "rejected"
  /\ rbError' = err
  /\ raised' = raised \cup {err}

\* runBuild returns
Return ==
  /\ rbPc' = "done"
  /\ rbOutcome' = "resolved"
  /\ UNCHANGED <<rbError, raised>>

(***************************************************************************)
(* handle up to its await of runBuild, and runBuild up to its first await: *)
(* the watch option, the config option, loader.load.                       *)
(***************************************************************************)
HandleStart ==
  /\ hPc = "start"
  /\ hPc' = "awaitRunBuild"
  /\ LET w == Find(options, "watch")
         watchMode == IF w # 0 /\ Truthy(options[w].value) THEN "true" ELSE "false"
         c == Find(options, "config")
     IN  IF c = 0
         THEN /\ Throw(TypeErrorConfig)
              /\ locals' = [locals EXCEPT !.watchMode = watchMode]
              /\ UNCHANGED <<loadP, log>>
         ELSE /\ locals' = [locals EXCEPT !.watchMode = watchMode,
                                          !.configFileName = options[c].value]
              /\ log' = Append(log, Event("load", "call"))
              /\ loadP' = "pending"
              /\ rbPc' = "awaitLoad"
              /\ rbOutcome' = "pending"
              /\ UNCHANGED <<rbError, raised>>
  /\ UNCHANGED <<options, inputs, deleteP, copyP, stratP, stratError,
                 configuration, requireResult, invoked, messages, unhandled>>

\* loader.load settles
LoaderSettle ==
  /\ loadP = "pending"
  /\ \/ /\ loadP' = "resolved"
        /\ configuration' \in Configurations
        /\ log' = Append(log, Event("load", "ok"))
        /\ UNCHANGED raised
     \/ /\ loadP' = "rejected"
        /\ log' = Append(log, Event("load", "err"))
        /\ raised' = raised \cup {ConfigurationError}
        /\ UNCHANGED configuration
  /\ UNCHANGED <<options, inputs, hPc, rbPc, rbOutcome, rbError, deleteP, copyP,
                 stratP, stratError, locals, requireResult, invoked, messages,
                 unhandled>>

(***************************************************************************)
(* runBuild from the await of loader.load to the await of                  *)
(* deleteOutDirIfEnabled: the app input, the tsconfig path, the project    *)
(* descriptor, the webpack flag.                                           *)
(***************************************************************************)
DescriptorOutcomes == {"throws", Undef, "build"}

AfterLoad ==
  /\ rbPc = "awaitLoad"
  /\ Await(loadP)
  /\ IF loadP = "rejected"
     THEN /\ Throw(ConfigurationError)
          /\ UNCHANGED <<locals, log, deleteP>>
     ELSE LET a == Find(inputs, "app")
          IN  IF a = 0
              THEN /\ Throw(TypeErrorApp)
                   /\ UNCHANGED <<locals, log, deleteP>>
              ELSE \E d \in DescriptorOutcomes :
                     LET appName == inputs[a].value
                         path == ResolveTsConfigPath(configuration, appName, options)
                         webpack == ResolveWebpack(configuration, appName, options)
                     IN  IF d = "throws"
                         THEN /\ Throw(DescriptorError)
                              /\ locals' = [locals EXCEPT !.appName = appName,
                                                          !.pathToTsconfig = path]
                              /\ log' = log \o <<Event("getByConfigFilename", "call"),
                                                 Event("getByConfigFilename", "err")>>
                              /\ UNCHANGED deleteP
                         ELSE /\ locals' = [locals EXCEPT
                                   !.appName = appName,
                                   !.pathToTsconfig = path,
                                   !.outDir = IF Truthy(d) THEN d ELSE defaultOutDir,
                                   !.isWebpackEnabled = webpack]
                              /\ log' = log \o <<Event("getByConfigFilename", "call"),
                                                 Event("getByConfigFilename", "ok"),
                                                 Event("deleteOutDirIfEnabled", "call")>>
                              /\ deleteP' = "pending"
                              /\ rbPc' = "awaitDelete"
                              /\ UNCHANGED <<rbOutcome, rbError, raised>>
  /\ UNCHANGED <<options, inputs, hPc, loadP, copyP, stratP, stratError,
                 configuration, requireResult, invoked, messages, unhandled>>

\* workspaceUtils.deleteOutDirIfEnabled settles
WorkspaceSettle ==
  /\ deleteP = "pending"
  /\ \/ /\ deleteP' = "resolved"
        /\ log' = Append(log, Event("deleteOutDirIfEnabled", "ok"))
        /\ UNCHANGED raised
     \/ /\ deleteP' = "rejected"
        /\ log' = Append(log, Event("deleteOutDirIfEnabled", "err"))
        /\ raised' = raised \cup {CleanupError}
  /\ UNCHANGED <<options, inputs, hPc, rbPc, rbOutcome, rbError, loadP, copyP,
                 stratP, stratError, configuration, locals, requireResult, invoked,
                 messages, unhandled>>

\* runBuild from the await of deleteOutDirIfEnabled to the await of copyAssets
AfterDelete ==
  /\ rbPc = "awaitDelete"
  /\ Await(deleteP)
  /\ IF deleteP = "rejected"
     THEN /\ Throw(CleanupError)
          /\ UNCHANGED <<log, copyP>>
     ELSE /\ log' = Append(log, Event("copyAssets", "call"))
          /\ copyP' = "pending"
          /\ rbPc' = "awaitCopy"
          /\ UNCHANGED <<rbOutcome, rbError, raised>>
  /\ UNCHANGED <<options, inputs, hPc, loadP, deleteP, stratP, stratError,
                 configuration, locals, requireResult, invoked, messages, unhandled>>

\* assetsManager.copyAssets settles
AssetsSettle ==
  /\ copyP = "pending"
  /\ \/ /\ copyP' = "resolved"
        /\ log' = Append(log, Event("copyAssets", "ok"))
        /\ UNCHANGED raised
     \/ /\ copyP' = "rejected"
        /\ log' = Append(log, Event("copyAssets", "err"))
        /\ raised' = raised \cup {AssetsError}
  /\ UNCHANGED <<options, inputs, hPc, rbPc, rbOutcome, rbError, loadP, deleteP,
                 stratP, stratError, configuration, locals, requireResult, invoked,
                 messages, unhandled>>

(***************************************************************************)
(* runBuild from the await of copyAssets on: the dispatch.  With webpack   *)
(* enabled the webpack config is resolved and webpackCompiler.run is       *)
(* called and its result returned; otherwise watchCompiler.run or          *)
(* compiler.run is called and its result dropped.  A run call throws,      *)
(* returns nothing, or returns a promise that settles later.               *)
(***************************************************************************)
RunOutcomes == {"throws", "returns", "promise"}

Invocation(strategy, factory) ==
  [strategy |-> strategy, factory |-> factory,
   pathToTsconfig |-> locals.pathToTsconfig, appName |-> locals.appName,
   watchMode |-> locals.watchMode]

\* the call of the selected strategy's run and what runBuild does with its result
CallStrategy(strategy, factory) ==
  /\ invoked' = Append(invoked, Invocation(strategy, factory))
  /\ \E o \in RunOutcomes :
       CASE o = "throws" ->
              \E e \in StrategyFailures :
                /\ Throw(e)
                /\ log' = log \o <<Event(strategy, "call"), Event(strategy, "err")>>
                /\ stratP' = "threw"
                /\ stratError' = e
         [] o = "returns" ->
              /\ Return
              /\ log' = log \o <<Event(strategy, "call"), Event(strategy, "ok")>>
              /\ stratP' = "returned"
              /\ UNCHANGED stratError
         [] o = "promise" ->
              /\ log' = Append(log, Event(strategy, "call"))
              /\ stratP' = "pending"
              /\ UNCHANGED stratError
              /\ IF ReturnsResultOf(strategy)
                 THEN /\ rbPc' = "awaitStrategy"
                      /\ UNCHANGED <<rbOutcome, rbError, raised>>
                 ELSE Return

AfterCopy ==
  /\ rbPc = "awaitCopy"
  /\ Await(copyP)
  /\ IF copyP = "rejected"
     THEN /\ Throw(AssetsError)
          /\ UNCHANGED <<locals, log, stratP, stratError, requireResult, invoked>>
     ELSE LET strategy == SelectStrategy(locals.isWebpackEnabled, locals.watchMode)
          IN  IF strategy = "Bundling"
              THEN \E fileLoads \in BOOLEAN :
                     LET webpackPath == ResolveWebpackPath(configuration, locals.appName, options)
                         defaultPath == DefaultPathArgument(configuration)
                         r == getWebpackConfigFactoryByPath(webpackPath, defaultPath, fileLoads)
                     IN  /\ locals' = [locals EXCEPT !.webpackPath = webpackPath,
                                                     !.defaultPath = defaultPath]
                         /\ requireResult' = r.required
                         /\ IF r.threw
                            THEN /\ Throw(r.value)
                                 /\ UNCHANGED <<log, stratP, stratError, invoked>>
                            ELSE CallStrategy(strategy, r.value)
              ELSE /\ CallStrategy(strategy, Undef)
                   /\ UNCHANGED <<locals, requireResult>>
  /\ UNCHANGED <<options, inputs, hPc, loadP, deleteP, copyP, configuration,
                 messages, unhandled>>

\* the promise a strategy's run returned settles; a rejection of a promise
\* runBuild dropped is an unhandled rejection
StrategySettle ==
  /\ stratP = "pending"
  /\ LET strategy == invoked[Len(invoked)].strategy
     IN  \/ /\ stratP' = "resolved"
            /\ log' = Append(log, Event(strategy, "ok"))
            /\ UNCHANGED <<stratError, raised, unhandled>>
         \/ \E e \in StrategyFailures :
              /\ stratP' = "rejected"
              /\ stratError' = e
              /\ log' = Append(log, Event(strategy, "err"))
              /\ raised' = raised \cup {e}
              /\ unhandled' = IF rbPc = "awaitStrategy" THEN unhandled
                               ELSE unhandled \cup {e}
  /\ UNCHANGED <<options, inputs, hPc, rbPc, rbOutcome, rbError, loadP, deleteP,
                 copyP, configuration, locals, requireResult, invoked, messages>>

\* the promise runBuild returned follows the one webpackCompiler.run returned
AfterStrategy ==
  /\ rbPc = "awaitStrategy"
  /\ Await(stratP)
  /\ rbPc' = "done"
  /\ rbOutcome' = IF stratP = "rejected" THEN "rejected" ELSE "resolved"
  /\ rbError' = IF stratP = "rejected" THEN stratError ELSE rbError
  /\ UNCHANGED <<options, inputs, hPc, loadP, deleteP, copyP, stratP, stratError,
                 configuration, locals, requireResult, invoked, log, raised,
                 messages, unhandled>>

\* handle after its await of runBuild: the catch prints, nothing is rethrown
HandleResume ==
  /\ hPc = "awaitRunBuild"
  /\ Await(rbOutcome)
  /\ hPc' = "returned"
  /\ messages' = IF rbOutcome = "rejected" THEN messages \o HandleCatch(rbError)
                 ELSE messages
  /\ UNCHANGED <<options, inputs, rbPc, rbOutcome, rbError, loadP, deleteP, copyP,
                 stratP, stratError, configuration, locals, requireResult, invoked,
                 log, raised, unhandled>>

Next ==
  \/ HandleStart
  \/ LoaderSettle
  \/ AfterLoad
  \/ WorkspaceSettle
  \/ AfterDelete
  \/ AssetsSettle
  \/ AfterCopy
  \/ StrategySettle
  \/ AfterStrategy
  \/ HandleResume

Spec == Init /\ [][Next]_vars

(***************************************************************************)
(* Vocabulary of the properties                                            *)
(***************************************************************************)
HasName(list, n) == \E i \in 1..Len(list) : list[i].name = n

Invoked(strategy) == \E i \in 1..Len(invoked) : invoked[i].strategy = strategy

Logged(op, ev) == \E i \in 1..Len(log) : log[i] = Event(op, ev)

\* where the log has the event first, 0 when it has it nowhere
IndexOf(event) ==
  IF \E i \in 1..Len(log) : log[i] = event
  THEN CHOOSE i \in 1..Len(log) : log[i] = event /\ \A j \in 1..(i - 1) : log[j] # event
  ELSE 0

\* runBuild went past the await of copyAssets into its dispatch
ReachedDispatch == copyP = "resolved" /\ rbPc \in {"awaitStrategy", "done"}

WebpackEnabled == Truthy(locals.isWebpackEnabled)
WatchMode == locals.watchMode = "true"

\* the resolution of the webpack config factory threw (the path join or the load)
FactoryThrew ==
  /\ rbOutcome = "rejected"
  /\ rbError \in {WebpackLoadError, TypeErrorJoin}
  /\ stratP = "none"

(***************************************************************************)
(* C1, as stated: in every runBuild call that reaches the dispatch step,   *)
(* Bundling is invoked iff webpackEnabled, Watching iff not webpackEnabled *)
(* and watchMode, OneShot iff neither.                                     *)
(***************************************************************************)
C1_DispatchByPairAlone ==
  ReachedDispatch =>
    /\ Invoked("Bundling") <=> WebpackEnabled
    /\ Invoked("Watching") <=> (~WebpackEnabled /\ WatchMode)
    /\ Invoked("OneShot") <=> (~WebpackEnabled /\ ~WatchMode)

(***************************************************************************)
(* C1, amended: in every runBuild call that reaches the dispatch step,     *)
(* Bundling is invoked iff webpackEnabled and the resolution of the        *)
(* webpack config factory did not throw, Watching iff not webpackEnabled   *)
(* and watchMode, OneShot iff neither; no other strategy is invoked.       *)
(***************************************************************************)
C1_DispatchPriority ==
  ReachedDispatch =>
    /\ Invoked("Bundling") <=> (WebpackEnabled /\ ~FactoryThrew)
    /\ Invoked("Watching") <=> (~WebpackEnabled /\ WatchMode)
    /\ Invoked("OneShot") <=> (~WebpackEnabled /\ ~WatchMode)

C1_Witness ==
  /\ ReachedDispatch
  /\ WebpackEnabled
  /\ WatchMode
  /\ Invoked("Bundling")

(***************************************************************************)
(* C2, as stated: every invocation of runBuild ends with exactly one       *)
(* strategy's run having been invoked.                                     *)
(***************************************************************************)
C2_ExactlyOneAlways == rbPc = "done" => Len(invoked) = 1

\* every step before the dispatch succeeded
PreBuildSucceeded ==
  /\ HasName(options, "config")
  /\ loadP = "resolved"
  /\ HasName(inputs, "app")
  /\ Logged("getByConfigFilename", "ok")
  /\ deleteP = "resolved"
  /\ copyP = "resolved"

(***************************************************************************)
(* C2, amended: never more than one strategy's run is invoked in a         *)
(* runBuild call, and a call that has ended has invoked exactly one iff    *)
(* every step before the dispatch succeeded and the resolution of the      *)
(* webpack config factory did not throw; otherwise it has invoked none.    *)
(***************************************************************************)
C2_AtMostOneStrategy ==
  /\ Len(invoked) <= 1
  /\ rbPc = "done" => (Len(invoked) = 1 <=> (PreBuildSucceeded /\ ~FactoryThrew))

C2_Witness ==
  /\ rbPc = "done"
  /\ rbOutcome = "resolved"
  /\ Len(invoked) = 1
  /\ invoked[1].strategy = "OneShot"

(***************************************************************************)
(* C3: whenever a strategy's run is invoked, deleteOutDirIfEnabled was     *)
(* called and completed, then copyAssets was called and completed, all     *)
(* before the run; no cleanup event comes after the call of copyAssets.    *)
(***************************************************************************)
C3_CleanupThenAssetsThenStrategy ==
  \A k \in 1..Len(log) :
    (log[k].op \in Strategies /\ log[k].ev = "call") =>
      LET a == IndexOf(Event("deleteOutDirIfEnabled", "call"))
          b == IndexOf(Event("deleteOutDirIfEnabled", "ok"))
          c == IndexOf(Event("copyAssets", "call"))
          d == IndexOf(Event("copyAssets", "ok"))
      IN  /\ 0 < a /\ a < b /\ b < c /\ c < d /\ d < k
          /\ \A j \in c..Len(log) : log[j].op # "deleteOutDirIfEnabled"

C3_Witness ==
  /\ Logged("Watching", "call")
  /\ Logged("copyAssets", "ok")
  /\ Logged("deleteOutDirIfEnabled", "ok")

(***************************************************************************)
(* The case of C4: webpack is enabled, the requested webpack config path   *)
(* equals the default path handed to getWebpackConfigFactoryByPath, and    *)
(* the load of the file failed.                                            *)
(***************************************************************************)
DefaultPathLoadFailed ==
  /\ ReachedDispatch
  /\ WebpackEnabled
  /\ requireResult = "failed"
  /\ locals.webpackPath = locals.defaultPath

\* base configurations a factory can be applied to; ref is the object's identity
BaseConfigurations ==
  { [ref |-> "sentinel", entries |-> {"entry", "output"}],
    [ref |-> "empty sentinel", entries |-> {}] }

BundlingGotFallback ==
  /\ Len(invoked) = 1
  /\ invoked[1].strategy = "Bundling"
  /\ invoked[1].factory = FallbackFactory
  /\ WebpackLoadError \notin raised

C5_NonDefaultPathLoadFailureIsFatal ==
  ( /\ ReachedDispatch
    /\ WebpackEnabled
    /\ requireResult = "failed"
    /\ locals.webpackPath # SystemDefaultWebpackPath )
  => /\ rbOutcome = "rejected"
     /\ rbError = WebpackLoadError
     /\ invoked = <<>>

(***************************************************************************)
(* C6: once handle has returned, every failure raised at any step has      *)
(* been rendered as exactly one message, and none escaped handle.          *)
(***************************************************************************)
C6_EveryFailureRenderedOnce ==
  (hPc = "returned" /\ raised # {}) =>
    /\ Len(messages) = 1
    /\ messages[1].text \in raised
    /\ unhandled = {}

(***************************************************************************)
(* C7: the tsconfig path, the webpack flag and the webpack config path     *)
(* runBuild resolved are each the value of the highest-precedence source   *)
(* that defines one: the option, else the override under the app name,     *)
(* else the global value, else undefined; an app name the projects section *)
(* does not have counts as no override.                                    *)
(***************************************************************************)
HighestPrecedence(optionName, key) ==
  IF \E i \in 1..Len(options) : options[i].name = optionName /\ options[i].value # Undef
  THEN options[CHOOSE i \in 1..Len(options) :
                 options[i].name = optionName /\ options[i].value # Undef].value
  ELSE IF /\ locals.appName \in DOMAIN configuration.projects
          /\ key \in DOMAIN configuration.projects[locals.appName].compilerOptions
  THEN configuration.projects[locals.appName].compilerOptions[key]
  ELSE IF key \in DOMAIN configuration.compilerOptions
  THEN configuration.compilerOptions[key]
  ELSE Undef

C8_StrategyFailurePropagates ==
  (stratP \in {"threw", "rejected"} /\ rbOutcome \in {"resolved", "rejected"}) =>
    /\ rbOutcome = "rejected"
    /\ rbError = stratError
    /\ Len(invoked) = 1

(***************************************************************************)
(* C9: once the configuration load, the descriptor fetch, the cleanup or   *)
(* the asset copy has failed, no collaborator is invoked afterwards, no    *)
(* strategy is invoked, and runBuild ends rejected with that same error;   *)
(* no collaborator is invoked twice.                                       *)
(***************************************************************************)
PreBuildOps == {"load", "getByConfigFilename", "deleteOutDirIfEnabled", "copyAssets"}

ErrorOf(op) ==
  CASE op = "load" -> ConfigurationError
    [] op = "getByConfigFilename" -> DescriptorError
    [] op = "deleteOutDirIfEnabled" -> CleanupError
    [] op = "copyAssets" -> AssetsError

C9_FailureStopsTheBuild ==
  /\ \A i \in 1..Len(log) :
       (log[i].op \in PreBuildOps /\ log[i].ev = "err") =>
         /\ \A j \in (i + 1)..Len(log) : log[j].ev # "call"
         /\ invoked = <<>>
         /\ rbPc = "done" => (rbOutcome = "rejected" /\ rbError = ErrorOf(log[i].op))
  /\ \A i, j \in 1..Len(log) :
       (i < j /\ log[i].ev = "call") => log[i] # log[j]

C9_Witness ==
  /\ Logged("copyAssets", "err")
  /\ rbPc = "done"
  /\ rbError = AssetsError
  /\ hPc = "returned"

(***************************************************************************)
(* C10, as stated: when the config option or the app input is absent,      *)
(* runBuild fails with the missing-field error and no collaborator has     *)
(* been invoked.                                                           *)
(***************************************************************************)
C10_MissingFieldBeforeAnyCollaborator ==
  (~HasName(options, "config") \/ ~HasName(inputs, "app")) =>
    /\ log = <<>>
    /\ rbPc = "done" => (rbOutcome = "rejected" /\ rbError \in {TypeErrorConfig, TypeErrorApp})

(***************************************************************************)
(* C10, amended: when the config option is absent, runBuild fails with the *)
(* missing-field error and no collaborator has been invoked; when only the *)
(* app input is absent, loader.load, and no other collaborator, has been   *)
(* invoked and has settled before runBuild fails, with the missing-field   *)
(* error if the load succeeded and with the load's error if it failed.     *)
(***************************************************************************)
C10_MissingFieldOrder ==
  /\ ~HasName(options, "config") =>
       /\ log = <<>>
       /\ rbPc = "done" => (rbOutcome = "rejected" /\ rbError = TypeErrorConfig)
  /\ (HasName(options, "config") /\ ~HasName(inputs, "app")) =>
       /\ \A i \in 1..Len(log) : log[i].op = "load"
       /\ rbPc = "done" =>
            /\ rbOutcome = "rejected"
            /\ Len(log) = 2
            /\ rbError = IF Logged("load", "err") THEN ConfigurationError ELSE TypeErrorApp

C10_Witness ==
  /\ HasName(options, "config")
  /\ ~HasName(inputs, "app")
  /\ rbPc = "done"
  /\ rbError = TypeErrorApp
  /\ log = <<Event("load", "call"), Event("load", "ok")>>

====
